---------------------------- MODULE Spec2Model ----------------------------
(***************************************************************************)
(* Graph construction of the DCGAN example                                 *)
(* (tensorflow/examples/cc/gan/dcgan/nn_ops_rkz.cc).                       *)
(*                                                                         *)
(* Every constructor of the file appends nodes to one symbolic graph       *)
(* through a Scope.  The graph is the sequence `graph` of node records;    *)
(* a constructor is the sequence of nodes it appends (its "program"), and  *)
(* the action Step appends the next node of the constructor that is        *)
(* running.  Floats are held in thousandths (ONE = 1.0).  Where C++ leaves *)
(* the evaluation order of sibling arguments open, the nodes are listed    *)
(* left to right; no input edge depends on that order.                     *)
(***************************************************************************)
EXTENDS Integers, Sequences, FiniteSets, TLC

VARIABLES graph,      \* the nodes added to the Scope's graph so far, in order
          objs,       \* the objects constructed (or under construction)
          active,     \* the object whose constructor is running, 0 if none
          pc,         \* index of the next node the running constructor adds
          batch_size, \* the batch_size the caller passes to every constructor
          image_size, \* the IMAGE_SIZE the file is compiled with
          run         \* the caller's evaluation of a loss graph, NoRun before it

vars == <<graph, objs, active, pc, batch_size, image_size, run>>

-----------------------------------------------------------------------------
(* Bounds of the model *)

MaxBatch == 2
MaxCalls == 3
MaxLogit == 2
MaxImageSize == 12

(* Fixed-point unit: the float 1.0f *)
ONE == 10 * 100

(* util.h (not part of the sources at hand) *)
NUM_CHANNELS == 1
IMAGE_SIZE == 28
NOISE_DIM == 100
UNITS == 7 * 7 * 256

-----------------------------------------------------------------------------
(* Numbers *)

Max(a, b) == IF a >= b THEN a ELSE b

Abs(a) == IF a >= 0 THEN a ELSE -a

(* float -> int conversion of a non-negative value: truncation *)
FloatToInt(f) == f \div ONE

(* int -> float conversion *)
IntToFloat(i) == i * ONE

RECURSIVE SqrtBetween(_, _, _)
(* the r in lo..hi with r * r <= v < (r + 1) * (r + 1), by bisection *)
SqrtBetween(v, lo, hi) ==
  IF lo = hi THEN lo
  ELSE LET mid == (lo + hi + 1) \div 2 IN
       IF mid * mid <= v THEN SqrtBetween(v, mid, hi)
                         ELSE SqrtBetween(v, lo, mid - 1)

(* std::sqrt on a fixed-point value v in units of 1/ONE^2, v <= 4: the     *)
(* root in units of 1/ONE, rounded down                                    *)
Sqrt(v) == SqrtBetween(v, 0, 2 * ONE)

-----------------------------------------------------------------------------
(* Nodes.  A reference names a node by the object that built it and its    *)
(* name inside that object; Step resolves it to the node's index.          *)

Ref(o, n) == [o |-> o, n |-> n]

Node(name, op, in) ==
  [name |-> name, op |-> op, in |-> in, by |-> "", shape |-> <<>>,
   val |-> <<>>, dtype |-> "", strides |-> <<>>, padding |-> "", alpha |-> 0]

WithShape(n, shape) == [n EXCEPT !.shape = shape, !.dtype = "float"]

ConstFloat(name, val) ==
  [Node(name, "Const", <<>>) EXCEPT !.val = val, !.dtype = "float"]

ConstInt(name, val) ==
  [Node(name, "Const", <<>>) EXCEPT !.val = val, !.dtype = "int32"]

(* Const<float>(scope, v, TensorShape(shape)): a tensor filled with v *)
ConstFill(name, v, shape) ==
  [Node(name, "Const", <<>>) EXCEPT !.val = <<v>>, !.shape = shape,
                                     !.dtype = "float"]

Variable(name, shape) == WithShape(Node(name, "Variable", <<>>), shape)

RandomNormal(name, shape) == WithShape(Node(name, "RandomNormal", <<>>), shape)

Reshape(name, x, shape) == [Node(name, "Reshape", <<x>>) EXCEPT !.shape = shape]

BroadcastTo(name, v, shape) ==
  [Node(name, "BroadcastTo", <<>>) EXCEPT !.val = <<v>>, !.shape = shape,
                                           !.dtype = "float"]

LeakyRelu(name, x, alpha) ==
  [Node(name, "LeakyRelu", <<x>>) EXCEPT !.alpha = alpha]

Conv2D(name, input, filter, strides, padding) ==
  [Node(name, "Conv2D", <<input, filter>>) EXCEPT !.strides = strides,
                                                   !.padding = padding]

FusedBatchNorm(name, x, scale, offset, mean, variance, epsilon) ==
  [Node(name, "FusedBatchNorm", <<x, scale, offset, mean, variance>>)
     EXCEPT !.val = <<epsilon>>]

(* the nodes of a helper constructor carry the helper's name *)
Tag(by, prog) == [k \in 1..Len(prog) |-> [prog[k] EXCEPT !.by = by]]


-----------------------------------------------------------------------------
(* BatchNormalization::BatchNormalization.  p is the name of the local the  *)
(* caller binds the helper to; its result is the node p \o <<"output">>.    *)

BatchNormalization(self, p, x, mean, variance, offset, scale, variance_epsilon) ==
  Tag("BatchNormalization",
    << Node(p \o <<"inv", "add">>, "Add", <<variance, variance_epsilon>>),
       Node(p \o <<"inv">>, "Rsqrt", <<Ref(self, p \o <<"inv", "add">>)>>),
       Node(p \o <<"ret1", "cast">>, "Cast", <<Ref(self, p \o <<"inv">>)>>),
       Node(p \o <<"ret1">>, "Multiply", <<x, Ref(self, p \o <<"ret1", "cast">>)>>),
       Node(p \o <<"ret2">>, "Multiply", <<mean, Ref(self, p \o <<"inv">>)>>),
       Node(p \o <<"output", "sub">>, "Sub", <<offset, Ref(self, p \o <<"ret2">>)>>),
       Node(p \o <<"output", "cast">>, "Cast", <<Ref(self, p \o <<"output", "sub">>)>>),
       Node(p \o <<"output">>, "Add",
            <<Ref(self, p \o <<"ret1">>), Ref(self, p \o <<"output", "cast">>)>>) >>)

-----------------------------------------------------------------------------
(* Dropout::Dropout(scope, x, const int rate).  The caller's argument is    *)
(* converted to the int parameter before the body runs.                     *)

Dropout(self, p, x, arg) ==
  LET rate == FloatToInt(arg)             \* const int rate
      keep_prob == IntToFloat(1 - rate)   \* float keep_prob = 1 - rate
  IN
  Tag("Dropout",
    << Node(p \o <<"random_value5", "shape">>, "Shape", <<x>>),
       WithShape(Node(p \o <<"random_value5">>, "RandomUniform",
                      <<Ref(self, p \o <<"random_value5", "shape">>)>>), <<>>),
       ConstFloat(p \o <<"random_tensor", "keep_prob">>, <<keep_prob>>),
       Node(p \o <<"random_tensor">>, "Add",
            <<Ref(self, p \o <<"random_value5">>),
              Ref(self, p \o <<"random_tensor", "keep_prob">>)>>),
       Node(p \o <<"binary_tensor">>, "Floor", <<Ref(self, p \o <<"random_tensor">>)>>),
       ConstFloat(p \o <<"output", "keep_prob">>, <<keep_prob>>),
       Node(p \o <<"output", "div">>, "Div",
            <<x, Ref(self, p \o <<"output", "keep_prob">>)>>),
       Node(p \o <<"output">>, "Multiply",
            <<Ref(self, p \o <<"output", "div">>),
              Ref(self, p \o <<"binary_tensor">>)>>) >>)

-----------------------------------------------------------------------------
(* SigmoidCrossEntropyWithLogits::SigmoidCrossEntropyWithLogits *)

SigmoidCrossEntropyWithLogits_SwappedSelect(self, labels, logits) ==
  Tag("SigmoidCrossEntropyWithLogits",
    << Node(<<"zeros">>, "ZerosLike", <<logits>>),
       Node(<<"cond">>, "GreaterEqual", <<logits, Ref(self, <<"zeros">>)>>),
       Node(<<"relu_logits">>, "SelectV2",
            <<Ref(self, <<"cond">>), Ref(self, <<"zeros">>), logits>>),
       Node(<<"neg_abs_logits", "neg">>, "Negate", <<logits>>),
       Node(<<"neg_abs_logits">>, "SelectV2",
            <<Ref(self, <<"cond">>), Ref(self, <<"neg_abs_logits", "neg">>), logits>>),
       Node(<<"output", "mul">>, "Multiply", <<logits, labels>>),
       Node(<<"output", "sub">>, "Sub",
            <<Ref(self, <<"relu_logits">>), Ref(self, <<"output", "mul">>)>>),
       Node(<<"output", "exp">>, "Exp", <<Ref(self, <<"neg_abs_logits">>)>>),
       Node(<<"output", "log1p">>, "Log1p", <<Ref(self, <<"output", "exp">>)>>),
       Node(<<"output">>, "Add",
            <<Ref(self, <<"output", "sub">>), Ref(self, <<"output", "log1p">>)>>) >>)

SigmoidCrossEntropyWithLogits(self, labels, logits) ==
  Tag("SigmoidCrossEntropyWithLogits",
    << Node(<<"zeros">>, "ZerosLike", <<logits>>),
       Node(<<"cond">>, "GreaterEqual", <<logits, Ref(self, <<"zeros">>)>>),
       Node(<<"relu_logits">>, "SelectV2",
            <<Ref(self, <<"cond">>), logits, Ref(self, <<"zeros">>)>>),
       Node(<<"neg_abs_logits", "neg">>, "Negate", <<logits>>),
       Node(<<"neg_abs_logits">>, "SelectV2",
            <<Ref(self, <<"cond">>), Ref(self, <<"neg_abs_logits", "neg">>), logits>>),
       Node(<<"output", "mul">>, "Multiply", <<logits, labels>>),
       Node(<<"output", "sub">>, "Sub",
            <<Ref(self, <<"relu_logits">>), Ref(self, <<"output", "mul">>)>>),
       Node(<<"output", "exp">>, "Exp", <<Ref(self, <<"neg_abs_logits">>)>>),
       Node(<<"output", "log1p">>, "Log1p", <<Ref(self, <<"output", "exp">>)>>),
       Node(<<"output">>, "Add",
            <<Ref(self, <<"output", "sub">>), Ref(self, <<"output", "log1p">>)>>) >>)

-----------------------------------------------------------------------------
(* GlorotUniform::GlorotUniform.  shape_vec is indexed from 1 here.         *)

GlorotFanIn(shape_vec) ==
  IF Len(shape_vec) = 4
    THEN shape_vec[1] * shape_vec[2] * shape_vec[3]
    ELSE shape_vec[1]

GlorotFanOut_UsesInputDepth(shape_vec) ==
  IF Len(shape_vec) = 4
    THEN shape_vec[1] * shape_vec[2] * shape_vec[3]
    ELSE shape_vec[2]

GlorotFanOut(shape_vec) ==
  IF Len(shape_vec) = 4
    THEN shape_vec[1] * shape_vec[2] * shape_vec[4]
    ELSE shape_vec[2]

(* scale = 1.0f / std::max(1.0f, (fan_in + fan_out) / 2.0f), kept exact as *)
(* the fraction 2 / GlorotScaleDen; limit = std::sqrt(3.0f * scale).       *)
GlorotScaleDen(fan_in, fan_out) == Max(2, fan_in + fan_out)

GlorotLimit(fan_in, fan_out) ==
  Sqrt((3 * 2 * ONE * ONE) \div GlorotScaleDen(fan_in, fan_out))

GlorotUniform(self, p, shape) ==
  LET limit == GlorotLimit(GlorotFanIn(shape), GlorotFanOut(shape))
      maxval == limit
      minval == -limit
  IN Tag("GlorotUniform",
    << ConstInt(p \o <<"random_value", "shape">>, shape),
       WithShape(Node(p \o <<"random_value">>, "RandomUniform",
                      <<Ref(self, p \o <<"random_value", "shape">>)>>), shape),
       ConstFloat(p \o <<"result", "range">>, <<maxval - minval>>),
       Node(p \o <<"result", "mul">>, "Multiply",
            <<Ref(self, p \o <<"random_value">>), Ref(self, p \o <<"result", "range">>)>>),
       ConstFloat(p \o <<"result", "minval">>, <<minval>>),
       Node(p \o <<"output">>, "Add",
            <<Ref(self, p \o <<"result", "mul">>),
              Ref(self, p \o <<"result", "minval">>)>>) >>)

-----------------------------------------------------------------------------
(* Conv2DTranspose::Conv2DTranspose: one Conv2DBackpropInput node *)

Conv2DTranspose(name, input_sizes, filter, out_backprop, strides, padding) ==
  Tag("Conv2DTranspose",
    << [Node(name, "Conv2DBackpropInput", <<input_sizes, filter, out_backprop>>)
          EXCEPT !.strides = strides, !.padding = padding] >>)

-----------------------------------------------------------------------------
(* The statement pair that builds a moment accumulator:                     *)
(*   this->X = Variable(scope, shape, DT_FLOAT);                            *)
(*   this->assign_X = Assign(scope, this->X, ZerosLike(scope, this->P));    *)

Moment_AssignParam(self, X, shape, P) ==
  << Variable(<<X>>, shape),
     Node(<<"assign_" \o X, "zeros">>, "ZerosLike", <<Ref(self, <<P>>)>>),
     Node(<<"assign_" \o X>>, "Assign", <<Ref(self, <<X>>), Ref(self, <<P>>)>>) >>

Moment_AssignFirst(self, X, shape, P) ==
  << Node(<<"assign_" \o X, "zeros">>, "ZerosLike", <<Ref(self, <<P>>)>>),
     Node(<<"assign_" \o X>>, "Assign",
          <<Ref(self, <<X>>), Ref(self, <<"assign_" \o X, "zeros">>)>>),
     Variable(<<X>>, shape) >>

Moment(self, X, shape, P) ==
  << Variable(<<X>>, shape),
     Node(<<"assign_" \o X, "zeros">>, "ZerosLike", <<Ref(self, <<P>>)>>),
     Node(<<"assign_" \o X>>, "Assign",
          <<Ref(self, <<X>>), Ref(self, <<"assign_" \o X, "zeros">>)>>) >>

-----------------------------------------------------------------------------
(* Generator::Generator(scope, batch_size) *)

Out(o, p) == Ref(o, p \o <<"output">>)

Gen_input_sizes(b) == <<b, 7, 7, 128>>

Gen_input_sizes2_NoUpsampling(b) == <<b, 7, 7, 64>>

Gen_input_sizes2(b) == <<b, 14, 14, 64>>

Gen_input_sizes3_NoUpsampling(b) == <<b, 14, 14, NUM_CHANNELS>>

Gen_input_sizes3(b) == <<b, 28, 28, NUM_CHANNELS>>

GeneratorDense(self, b) ==
  << RandomNormal(<<"noise">>, <<b, NOISE_DIM>>),
     Variable(<<"w1">>, <<NOISE_DIM, UNITS>>),
     ConstFloat(<<"rate">>, <<10>>),
     RandomNormal(<<"random_value">>, <<NOISE_DIM, UNITS>>),
     Node(<<"assign_w1", "value">>, "Multiply",
          <<Ref(self, <<"random_value">>), Ref(self, <<"rate">>)>>),
     Node(<<"assign_w1">>, "Assign",
          <<Ref(self, <<"w1">>), Ref(self, <<"assign_w1", "value">>)>>),
     Node(<<"dense">>, "MatMul", <<Ref(self, <<"noise">>), Ref(self, <<"w1">>)>>) >>
  \o Moment(self, "w1_wm", <<NOISE_DIM, UNITS>>, "w1")
  \o Moment(self, "w1_wv", <<NOISE_DIM, UNITS>>, "w1")
  \o << ConstFloat(<<"mean">>, <<0>>),
        ConstFloat(<<"variance">>, <<ONE>>),
        ConstFloat(<<"offset">>, <<0>>),
        ConstFloat(<<"scale">>, <<ONE>>),
        ConstFloat(<<"variance_epsilon">>, <<1>>) >>
  \o BatchNormalization(self, <<"batchnorm">>, Ref(self, <<"dense">>),
                        Ref(self, <<"mean">>), Ref(self, <<"variance">>),
                        Ref(self, <<"offset">>), Ref(self, <<"scale">>),
                        Ref(self, <<"variance_epsilon">>))
  \o << LeakyRelu(<<"leakyrelu">>, Out(self, <<"batchnorm">>), 300),
        Reshape(<<"reshape1">>, Ref(self, <<"leakyrelu">>), <<b, 7, 7, 256>>) >>

GeneratorDeconv1(self, b) ==
  << ConstInt(<<"input_sizes">>, Gen_input_sizes(b)),
     Variable(<<"filter">>, <<5, 5, 128, 256>>) >>
  \o GlorotUniform(self, <<"random_value1">>, <<5, 5, 128, 256>>)
  \o << Node(<<"assign_filter">>, "Assign",
             <<Ref(self, <<"filter">>), Out(self, <<"random_value1">>)>>) >>
  \o Moment(self, "filter_wm", <<5, 5, 128, 256>>, "filter")
  \o Moment(self, "filter_wv", <<5, 5, 128, 256>>, "filter")
  \o Conv2DTranspose(<<"deconv1">>, Ref(self, <<"input_sizes">>),
                     Ref(self, <<"filter">>), Ref(self, <<"reshape1">>),
                     <<1, 1, 1, 1>>, "SAME")
  \o << ConstFloat(<<"mean1">>, <<>>),
        ConstFloat(<<"variance1">>, <<>>),
        BroadcastTo(<<"offset1">>, 0, <<128>>),
        BroadcastTo(<<"scale1">>, ONE, <<128>>),
        FusedBatchNorm(<<"batchnorm1">>, Ref(self, <<"deconv1">>),
                       Ref(self, <<"scale1">>), Ref(self, <<"offset1">>),
                       Ref(self, <<"mean1">>), Ref(self, <<"variance1">>), 1),
        LeakyRelu(<<"leakyrelu1">>, Ref(self, <<"batchnorm1">>), 300) >>

GeneratorDeconv2(self, b) ==
  << ConstInt(<<"input_sizes2">>, Gen_input_sizes2(b)),
     Variable(<<"filter2">>, <<5, 5, 64, 128>>) >>
  \o GlorotUniform(self, <<"random_value2">>, <<5, 5, 64, 128>>)
  \o << Node(<<"assign_filter2">>, "Assign",
             <<Ref(self, <<"filter2">>), Out(self, <<"random_value2">>)>>) >>
  \o Moment(self, "filter2_wm", <<5, 5, 64, 128>>, "filter2")
  \o Moment(self, "filter2_wv", <<5, 5, 64, 128>>, "filter2")
  \o Conv2DTranspose(<<"deconv2">>, Ref(self, <<"input_sizes2">>),
                     Ref(self, <<"filter2">>), Ref(self, <<"leakyrelu1">>),
                     <<1, 2, 2, 1>>, "SAME")
  \o << BroadcastTo(<<"offset2">>, 0, <<64>>),
        BroadcastTo(<<"scale2">>, ONE, <<64>>),
        FusedBatchNorm(<<"batchnorm2">>, Ref(self, <<"deconv2">>),
                       Ref(self, <<"scale2">>), Ref(self, <<"offset2">>),
                       Ref(self, <<"mean1">>), Ref(self, <<"variance1">>), 1),
        LeakyRelu(<<"leakyrelu2">>, Ref(self, <<"batchnorm2">>), 300) >>

GeneratorDeconv3(self, b) ==
  << ConstInt(<<"input_sizes3">>, Gen_input_sizes3(b)),
     Variable(<<"filter3">>, <<5, 5, NUM_CHANNELS, 64>>) >>
  \o GlorotUniform(self, <<"random_value3">>, <<5, 5, NUM_CHANNELS, 64>>)
  \o << Node(<<"assign_filter3">>, "Assign",
             <<Ref(self, <<"filter3">>), Out(self, <<"random_value3">>)>>) >>
  \o Moment(self, "filter3_wm", <<5, 5, NUM_CHANNELS, 64>>, "filter3")
  \o Moment(self, "filter3_wv", <<5, 5, NUM_CHANNELS, 64>>, "filter3")
  \o Conv2DTranspose(<<"output">>, Ref(self, <<"input_sizes3">>),
                     Ref(self, <<"filter3">>), Ref(self, <<"leakyrelu2">>),
                     <<1, 2, 2, 1>>, "SAME")

Generator(self, b) ==
  GeneratorDense(self, b) \o GeneratorDeconv1(self, b)
    \o GeneratorDeconv2(self, b) \o GeneratorDeconv3(self, b)

-----------------------------------------------------------------------------
(* Discriminator::Discriminator(scope, inputs, batch_size) *)

(* int s1 = IMAGE_SIZE; s1 = s1 / 4; s1 = std::pow(s1, 2) * 128; *)
FlattenSize_Halved(n) ==
  LET s1 == n \div 2 IN (s1 * s1) * 128

FlattenSize(n) ==
  LET s1 == n \div 4 IN (s1 * s1) * 128

DiscriminatorWeights(self) ==
  LET s1 == FlattenSize(image_size) IN
  << Variable(<<"conv1_weights">>, <<5, 5, NUM_CHANNELS, 64>>) >>
  \o GlorotUniform(self, <<"random_value">>, <<5, 5, NUM_CHANNELS, 64>>)
  \o << Node(<<"assign_conv1_weights">>, "Assign",
             <<Ref(self, <<"conv1_weights">>), Out(self, <<"random_value">>)>>),
        Variable(<<"conv1_biases">>, <<64>>),
        ConstFill(<<"b_zero_tensor">>, 0, <<64>>),
        Node(<<"assign_conv1_biases">>, "Assign",
             <<Ref(self, <<"conv1_biases">>), Ref(self, <<"b_zero_tensor">>)>>),
        Variable(<<"conv2_weights">>, <<5, 5, 64, 128>>) >>
  \o GlorotUniform(self, <<"random_value2">>, <<5, 5, 64, 128>>)
  \o << Node(<<"assign_conv2_weights">>, "Assign",
             <<Ref(self, <<"conv2_weights">>), Out(self, <<"random_value2">>)>>),
        Variable(<<"conv2_biases">>, <<128>>),
        ConstFill(<<"assign_conv2_biases", "value">>, 0, <<128>>),
        Node(<<"assign_conv2_biases">>, "Assign",
             <<Ref(self, <<"conv2_biases">>),
               Ref(self, <<"assign_conv2_biases", "value">>)>>),
        Variable(<<"fc1_weights">>, <<s1, 1>>) >>
  \o GlorotUniform(self, <<"random_value3">>, <<s1, 1>>)
  \o << Node(<<"assign_fc1_weights">>, "Assign",
             <<Ref(self, <<"fc1_weights">>), Out(self, <<"random_value3">>)>>),
        Variable(<<"fc1_biases">>, <<1>>),
        ConstFill(<<"assign_fc1_biases", "value">>, 0, <<1>>),
        Node(<<"assign_fc1_biases">>, "Assign",
             <<Ref(self, <<"fc1_biases">>),
               Ref(self, <<"assign_fc1_biases", "value">>)>>) >>

(* Gradient accum parameters *)
DiscriminatorMoments(self) ==
  LET s1 == FlattenSize(image_size) IN
  Moment(self, "conv1_wm", <<5, 5, NUM_CHANNELS, 64>>, "conv1_weights")
  \o Moment(self, "conv1_wv", <<5, 5, NUM_CHANNELS, 64>>, "conv1_weights")
  \o Moment(self, "conv1_bm", <<64>>, "conv1_biases")
  \o Moment(self, "conv1_bv", <<64>>, "conv1_biases")
  \o Moment(self, "conv2_wm", <<5, 5, 64, 128>>, "conv2_weights")
  \o Moment(self, "conv2_wv", <<5, 5, 64, 128>>, "conv2_weights")
  \o Moment(self, "conv2_bm", <<128>>, "conv2_biases")
  \o Moment(self, "conv2_bv", <<128>>, "conv2_biases")
  \o Moment(self, "fc1_wm", <<s1, 1>>, "fc1_weights")
  \o Moment(self, "fc1_wv", <<s1, 1>>, "fc1_weights")
  \o Moment(self, "fc1_bm", <<1>>, "fc1_biases")
  \o Moment(self, "fc1_bv", <<1>>, "fc1_biases")

(* Convnet Model *)
DiscriminatorModel_SkipsDropout(self, inputs, b) ==
  << Conv2D(<<"conv2d_1">>, inputs, Ref(self, <<"conv1_weights">>),
            <<1, 2, 2, 1>>, "SAME"),
     Node(<<"relu_1", "bias_add">>, "BiasAdd",
          <<Ref(self, <<"conv2d_1">>), Ref(self, <<"conv1_biases">>)>>),
     LeakyRelu(<<"relu_1">>, Ref(self, <<"relu_1", "bias_add">>), 300) >>
  \o Dropout(self, <<"dropout_1">>, Ref(self, <<"relu_1">>), 300)
  \o << Conv2D(<<"conv2d_2">>, Ref(self, <<"relu_1">>), Ref(self, <<"conv2_weights">>),
               <<1, 2, 2, 1>>, "SAME"),
        Node(<<"relu_2", "bias_add">>, "BiasAdd",
             <<Ref(self, <<"conv2d_2">>), Ref(self, <<"conv2_biases">>)>>),
        LeakyRelu(<<"relu_2">>, Ref(self, <<"relu_2", "bias_add">>), 300) >>
  \o Dropout(self, <<"dropout_2">>, Ref(self, <<"relu_2">>), 300)
  \o << Reshape(<<"reshape1">>, Out(self, <<"dropout_2">>),
                <<b, FlattenSize(image_size)>>),
        Node(<<"output", "matmul">>, "MatMul",
             <<Ref(self, <<"reshape1">>), Ref(self, <<"fc1_weights">>)>>),
        Node(<<"output">>, "BiasAdd",
             <<Ref(self, <<"output", "matmul">>), Ref(self, <<"fc1_biases">>)>>) >>

DiscriminatorModel(self, inputs, b) ==
  << Conv2D(<<"conv2d_1">>, inputs, Ref(self, <<"conv1_weights">>),
            <<1, 2, 2, 1>>, "SAME"),
     Node(<<"relu_1", "bias_add">>, "BiasAdd",
          <<Ref(self, <<"conv2d_1">>), Ref(self, <<"conv1_biases">>)>>),
     LeakyRelu(<<"relu_1">>, Ref(self, <<"relu_1", "bias_add">>), 300) >>
  \o Dropout(self, <<"dropout_1">>, Ref(self, <<"relu_1">>), 300)
  \o << Conv2D(<<"conv2d_2">>, Out(self, <<"dropout_1">>), Ref(self, <<"conv2_weights">>),
               <<1, 2, 2, 1>>, "SAME"),
        Node(<<"relu_2", "bias_add">>, "BiasAdd",
             <<Ref(self, <<"conv2d_2">>), Ref(self, <<"conv2_biases">>)>>),
        LeakyRelu(<<"relu_2">>, Ref(self, <<"relu_2", "bias_add">>), 300) >>
  \o Dropout(self, <<"dropout_2">>, Ref(self, <<"relu_2">>), 300)
  \o << Reshape(<<"reshape1">>, Out(self, <<"dropout_2">>),
                <<b, FlattenSize(image_size)>>),
        Node(<<"output", "matmul">>, "MatMul",
             <<Ref(self, <<"reshape1">>), Ref(self, <<"fc1_weights">>)>>),
        Node(<<"output">>, "BiasAdd",
             <<Ref(self, <<"output", "matmul">>), Ref(self, <<"fc1_biases">>)>>) >>

Discriminator(self, inputs, b) ==
  DiscriminatorWeights(self) \o DiscriminatorMoments(self)
    \o DiscriminatorModel(self, inputs, b)

(* Discriminator::Discriminator(scope, disc, inputs, batch_size) *)
SharedDiscriminator_Stride1(self, disc, inputs, b) ==
  << Conv2D(<<"conv2d_1">>, inputs, Ref(disc, <<"conv1_weights">>),
            <<1, 2, 2, 1>>, "SAME"),
     Node(<<"relu_1", "bias_add">>, "BiasAdd",
          <<Ref(self, <<"conv2d_1">>), Ref(disc, <<"conv1_biases">>)>>),
     LeakyRelu(<<"relu_1">>, Ref(self, <<"relu_1", "bias_add">>), 300) >>
  \o Dropout(self, <<"dropout_1">>, Ref(self, <<"relu_1">>), 300)
  \o << Conv2D(<<"conv2d_2">>, Out(self, <<"dropout_1">>), Ref(disc, <<"conv2_weights">>),
               <<1, 1, 1, 1>>, "SAME"),
        Node(<<"relu_2", "bias_add">>, "BiasAdd",
             <<Ref(self, <<"conv2d_2">>), Ref(disc, <<"conv2_biases">>)>>),
        LeakyRelu(<<"relu_2">>, Ref(self, <<"relu_2", "bias_add">>), 300) >>
  \o Dropout(self, <<"dropout_2">>, Ref(self, <<"relu_2">>), 300)
  \o << Reshape(<<"reshape1">>, Out(self, <<"dropout_2">>),
                <<b, FlattenSize(image_size)>>),
        Node(<<"output", "matmul">>, "MatMul",
             <<Ref(self, <<"reshape1">>), Ref(disc, <<"fc1_weights">>)>>),
        Node(<<"output">>, "BiasAdd",
             <<Ref(self, <<"output", "matmul">>), Ref(disc, <<"fc1_biases">>)>>) >>

SharedDiscriminator(self, disc, inputs, b) ==
  << Conv2D(<<"conv2d_1">>, inputs, Ref(disc, <<"conv1_weights">>),
            <<1, 2, 2, 1>>, "SAME"),
     Node(<<"relu_1", "bias_add">>, "BiasAdd",
          <<Ref(self, <<"conv2d_1">>), Ref(disc, <<"conv1_biases">>)>>),
     LeakyRelu(<<"relu_1">>, Ref(self, <<"relu_1", "bias_add">>), 300) >>
  \o Dropout(self, <<"dropout_1">>, Ref(self, <<"relu_1">>), 300)
  \o << Conv2D(<<"conv2d_2">>, Out(self, <<"dropout_1">>), Ref(disc, <<"conv2_weights">>),
               <<1, 2, 2, 1>>, "SAME"),
        Node(<<"relu_2", "bias_add">>, "BiasAdd",
             <<Ref(self, <<"conv2d_2">>), Ref(disc, <<"conv2_biases">>)>>),
        LeakyRelu(<<"relu_2">>, Ref(self, <<"relu_2", "bias_add">>), 300) >>
  \o Dropout(self, <<"dropout_2">>, Ref(self, <<"relu_2">>), 300)
  \o << Reshape(<<"reshape1">>, Out(self, <<"dropout_2">>),
                <<b, FlattenSize(image_size)>>),
        Node(<<"output", "matmul">>, "MatMul",
             <<Ref(self, <<"reshape1">>), Ref(disc, <<"fc1_weights">>)>>),
        Node(<<"output">>, "BiasAdd",
             <<Ref(self, <<"output", "matmul">>), Ref(disc, <<"fc1_biases">>)>>) >>

-----------------------------------------------------------------------------
(* The graph under construction *)

NoRun ==
  [loss |-> 0, x |-> 0, z |-> 0, cond |-> 0, relu_logits |-> 0,
   neg_abs_logits |-> 0, sub |-> 0]

(* the index of the node a reference names, 0 for an Output never assigned *)
Index(g, r) ==
  LET found == {i \in 1..Len(g) : g[i].obj = r.o /\ g[i].name = r.n}
  IN IF found = {} THEN 0 ELSE CHOOSE i \in found : TRUE

RefOf(g, i) == Ref(g[i].obj, g[i].name)

(* the node an op constructor adds to the scope's graph *)
Bind(g, o, n) ==
  [obj |-> o, name |-> n.name, op |-> n.op, by |-> n.by,
   in |-> [k \in 1..Len(n.in) |-> Index(g, n.in[k])],
   shape |-> n.shape, val |-> n.val, dtype |-> n.dtype,
   strides |-> n.strides, padding |-> n.padding, alpha |-> n.alpha]

(* the caller's own nodes: the real images and the labels it feeds *)
CallerNodes(b) ==
  << WithShape(Node(<<"real_images">>, "Placeholder", <<>>),
               <<b, image_size, image_size, NUM_CHANNELS>>),
     WithShape(Node(<<"labels">>, "Placeholder", <<>>), <<b, 1>>) >>

Object(cls, disc, args) == [cls |-> cls, disc |-> disc, args |-> args]

Program(o) ==
  LET ob == objs[o] IN
  CASE ob.cls = "Generator" -> Generator(o, batch_size)
    [] ob.cls = "Discriminator" -> Discriminator(o, ob.args[1], batch_size)
    [] ob.cls = "SharedDiscriminator" ->
         SharedDiscriminator(o, ob.disc, ob.args[1], batch_size)
    [] ob.cls = "SigmoidCrossEntropyWithLogits" ->
         SigmoidCrossEntropyWithLogits(o, ob.args[1], ob.args[2])

Objects(cls) == {o \in 1..Len(objs) : objs[o].cls = cls /\ o # active}

OutputOf(o) == Index(graph, Ref(o, <<"output">>))

(* what a caller can pass as the Discriminator's inputs *)
ImageNodes ==
  {Index(graph, Ref(0, <<"real_images">>))}
    \cup {OutputOf(o) : o \in Objects("Generator")}

LogitNodes ==
  {OutputOf(o) : o \in Objects("Discriminator") \cup Objects("SharedDiscriminator")}

(* the state before the first constructor call, in a build with IMAGE_SIZE n *)
Start(n) ==
  /\ image_size = n
  /\ batch_size \in 1..MaxBatch
  /\ graph = [k \in 1..2 |-> Bind(<<>>, 0, CallerNodes(batch_size)[k])]
  /\ objs = <<>>
  /\ active = 0
  /\ pc = 1
  /\ run = NoRun

Init == Start(IMAGE_SIZE)

Call(ob) ==
  /\ active = 0
  /\ run = NoRun
  /\ Len(objs) < MaxCalls
  /\ objs' = Append(objs, ob)
  /\ active' = Len(objs) + 1
  /\ pc' = 1
  /\ UNCHANGED <<graph, batch_size, image_size, run>>

(* the caller builds one Generator and one Discriminator that owns the     *)
(* weights; every further discriminator shares them                        *)
NewGenerator ==
  /\ Objects("Generator") = {}
  /\ Call(Object("Generator", 0, <<>>))

NewDiscriminator ==
  /\ Objects("Discriminator") = {}
  /\ \E i \in ImageNodes : Call(Object("Discriminator", 0, <<RefOf(graph, i)>>))

NewSharedDiscriminator ==
  \E d \in Objects("Discriminator") : \E i \in ImageNodes :
    Call(Object("SharedDiscriminator", d, <<RefOf(graph, i)>>))

NewSigmoidCrossEntropyWithLogits ==
  \E x \in LogitNodes :
    Call(Object("SigmoidCrossEntropyWithLogits", 0,
                <<Ref(0, <<"labels">>), RefOf(graph, x)>>))

(* the running constructor adds its next node; it returns after the last *)
Step ==
  /\ active # 0
  /\ LET prog == Program(active) IN
       /\ pc <= Len(prog)
       /\ graph' = Append(graph, Bind(graph, active, prog[pc]))
       /\ active' = IF pc = Len(prog) THEN 0 ELSE active
  /\ pc' = pc + 1
  /\ UNCHANGED <<objs, batch_size, image_size, run>>

-----------------------------------------------------------------------------
(* What the framework's ops compute, for the ops this file uses *)

UnaryOps == {"Rsqrt", "Cast", "Floor", "Negate", "Exp", "Log1p", "ZerosLike",
             "LeakyRelu", "FusedBatchNorm", "BiasAdd", "Assign"}

BinaryOps == {"Add", "Sub", "Multiply", "Div", "GreaterEqual"}

CeilDiv(a, b) == (a + b - 1) \div b

RECURSIVE ShapeOf(_, _)
(* the static shape of node i's output *)
ShapeOf(g, i) ==
  LET n == g[i] IN
  CASE n.op \in {"Placeholder", "Variable", "RandomNormal", "Reshape", "BroadcastTo"} ->
         n.shape
    [] n.op = "Const" -> IF n.shape # <<>> THEN n.shape ELSE <<Len(n.val)>>
    [] n.op = "Shape" -> <<Len(ShapeOf(g, n.in[1]))>>
    [] n.op = "RandomUniform" ->
         IF g[n.in[1]].op = "Shape" THEN ShapeOf(g, g[n.in[1]].in[1])
                                    ELSE g[n.in[1]].val
    [] n.op = "Conv2DBackpropInput" -> g[n.in[1]].val
    [] n.op = "Conv2D" ->
         LET x == ShapeOf(g, n.in[1])
             f == ShapeOf(g, n.in[2])
         IN <<x[1], CeilDiv(x[2], n.strides[2]), CeilDiv(x[3], n.strides[3]), f[4]>>
    [] n.op = "MatMul" -> <<ShapeOf(g, n.in[1])[1], ShapeOf(g, n.in[2])[2]>>
    [] n.op = "SelectV2" -> ShapeOf(g, n.in[2])
    [] n.op \in UnaryOps -> ShapeOf(g, n.in[1])
    [] n.op \in BinaryOps ->
         LET a == ShapeOf(g, n.in[1])
             b == ShapeOf(g, n.in[2])
         IN IF Len(b) > Len(a) THEN b ELSE a

RECURSIVE Eval(_, _, _)
(* the value of one element of node i's output when the nodes in DOMAIN    *)
(* feed are fed; booleans are 1 and 0                                      *)
Eval(g, i, feed) ==
  LET n == g[i]
      a == Eval(g, n.in[1], feed)
      b == Eval(g, n.in[2], feed)
      c == Eval(g, n.in[3], feed)
  IN IF i \in DOMAIN feed THEN feed[i]
     ELSE CASE n.op = "ZerosLike" -> 0
            [] n.op = "Negate" -> -a
            [] n.op = "GreaterEqual" -> IF a >= b THEN 1 ELSE 0
            [] n.op = "SelectV2" -> IF a = 1 THEN b ELSE c
            [] n.op = "Multiply" -> a * b
            [] n.op = "Add" -> a + b
            [] n.op = "Sub" -> a - b

(* the caller evaluates a finished loss graph on one logit and one label *)
RunLoss ==
  /\ active = 0
  /\ run = NoRun
  /\ \E l \in Objects("SigmoidCrossEntropyWithLogits") :
       \E x \in (-MaxLogit)..MaxLogit : \E z \in {0, 1} :
         LET feed == (Index(graph, objs[l].args[1]) :> z)
                       @@ (Index(graph, objs[l].args[2]) :> x)
             At(name) == Eval(graph, Index(graph, Ref(l, name)), feed)
         IN run' = [loss |-> l, x |-> x, z |-> z,
                    cond |-> At(<<"cond">>),
                    relu_logits |-> At(<<"relu_logits">>),
                    neg_abs_logits |-> At(<<"neg_abs_logits">>),
                    sub |-> At(<<"output", "sub">>)]
  /\ UNCHANGED <<graph, objs, active, pc, batch_size, image_size>>

Next ==
  \/ NewGenerator
  \/ NewDiscriminator
  \/ NewSharedDiscriminator
  \/ NewSigmoidCrossEntropyWithLogits
  \/ Step
  \/ RunLoss

Spec == Init /\ [][Next]_vars

(* The discriminators alone, in builds with other values of IMAGE_SIZE: the *)
(* caller feeds them real images of that size.                              *)
ImageSizes == 1..MaxImageSize \cup {IMAGE_SIZE}

InitSizes == \E n \in ImageSizes : Start(n)

NextSizes ==
  \/ NewDiscriminator
  \/ NewSharedDiscriminator
  \/ Step

SpecSizes == InitSizes /\ [][NextSizes]_vars

-----------------------------------------------------------------------------
(* Reading the graph *)

Named(o, name) == Index(graph, Ref(o, name))

Built(o, name) == Named(o, name) # 0

NodesOf(o) == {i \in 1..Len(graph) : graph[i].obj = o}

AllObjects == 1..Len(objs)

Complete(cls) == Objects(cls)

RECURSIVE Ancestors(_)
(* node i and every node its value is computed from *)
Ancestors(i) ==
  {i} \cup UNION {Ancestors(graph[i].in[k]) :
                    k \in {j \in 1..Len(graph[i].in) : graph[i].in[j] # 0}}

RECURSIVE Reaches(_, _)
(* node i is computed from node a; a node's inputs are bound when it is    *)
(* added, so they come before it                                           *)
Reaches(i, a) ==
  \/ i = a
  \/ /\ i > a
     /\ \E k \in 1..Len(graph[i].in) : Reaches(graph[i].in[k], a)

(* the nodes on some path from node a to node b, a itself left out *)
Between(a, b) == {i \in Ancestors(b) : i # a /\ Reaches(i, a)}

(* a stage of a network: one op, or all the nodes of one helper call *)
StageOf(i) ==
  LET n == graph[i] IN
  IF n.by # "" THEN <<n.by, <<n.name[1]>>>> ELSE <<n.op, n.name>>

(* the stages a set of nodes forms, in construction order *)
Stages(S) ==
  LET set == S
      ids == SelectSeq([i \in 1..Len(graph) |-> i], LAMBDA i : i \in set)
      first == SelectSeq([k \in 1..Len(ids) |-> k],
                         LAMBDA k : k = 1 \/ StageOf(ids[k]) # StageOf(ids[k - 1]))
  IN [k \in 1..Len(first) |-> StageOf(ids[first[k]])[1]]

Spatial(i) == <<ShapeOf(graph, i)[2], ShapeOf(graph, i)[3]>>

Larger(a, b) == a[1] > b[1] /\ a[2] > b[2]

-----------------------------------------------------------------------------
(* C1: in both Discriminator constructors the two Dropout stages use keep  *)
(* probability 1 - 0.3 = 0.7: the constant added to the uniform tensor     *)
(* before Floor and the constant x is divided by are both 0.7.             *)
C1_DropoutKeepProbIs07 ==
  \A i \in 1..Len(graph) :
    (graph[i].by = "Dropout" /\ graph[i].op = "Const")
      => graph[i].val = <<(7 * ONE) \div 10>>

-----------------------------------------------------------------------------
(* C2: the output of BatchNormalization is computed from all six of its    *)
(* inputs x, mean, variance, offset, scale and variance_epsilon; scale is  *)
(* a factor of inv.                                                        *)
C2_BatchNormUsesAllInputs ==
  \A g \in AllObjects :
    (objs[g].cls = "Generator" /\ Built(g, <<"batchnorm", "output">>))
      => \A a \in {"dense", "mean", "variance", "offset", "scale",
                   "variance_epsilon"} :
           Named(g, <<a>>) \in Ancestors(Named(g, <<"batchnorm", "output">>))

(* what the code builds instead: every input but scale is used *)
C2_BatchNormUsesAllButScale ==
  \A g \in AllObjects :
    (objs[g].cls = "Generator" /\ Built(g, <<"batchnorm", "output">>))
      => \A a \in {"dense", "mean", "variance", "offset", "scale",
                   "variance_epsilon"} :
           (Named(g, <<a>>) \in Ancestors(Named(g, <<"batchnorm", "output">>)))
             <=> (a # "scale")

-----------------------------------------------------------------------------
(* C3 *)

GeneratorStages ==
  <<"MatMul", "BatchNormalization", "LeakyRelu", "Reshape",
    "Conv2DTranspose", "FusedBatchNorm", "LeakyRelu",
    "Conv2DTranspose", "FusedBatchNorm", "LeakyRelu", "Conv2DTranspose">>

(* the stages from the noise input to the output are in the stated order,  *)
(* noise is RandomNormal [batch_size, NOISE_DIM], the dense stage          *)
(* multiplies by w1, and the output is the third transposed convolution    *)
GeneratorOrder(g) ==
  /\ graph[Named(g, <<"noise">>)].op = "RandomNormal"
  /\ graph[Named(g, <<"noise">>)].shape = <<batch_size, NOISE_DIM>>
  /\ graph[Named(g, <<"dense">>)].in = <<Named(g, <<"noise">>), Named(g, <<"w1">>)>>
  /\ Stages(Between(Named(g, <<"noise">>), OutputOf(g))) = GeneratorStages
  /\ graph[OutputOf(g)].by = "Conv2DTranspose"

(* transposed-convolution node d yields a larger image than it is fed *)
Upsamples(d) == Larger(Spatial(d), Spatial(graph[d].in[3]))

(* C3 as claimed: the Generator's stages are in the stated order and each  *)
(* of the three transposed convolutions enlarges height and width.         *)
C3_ThreeUpsamplingStages ==
  \A g \in Complete("Generator") :
    /\ GeneratorOrder(g)
    /\ \A d \in {"deconv1", "deconv2", "output"} : Upsamples(Named(g, <<d>>))

(* C3, amended: the Generator's stages are in the stated order; the second *)
(* and third transposed convolutions enlarge height and width, the first   *)
(* (stride 1) keeps them at 7 x 7.                                         *)
C3_StagesInOrderTwoUpsample ==
  \A g \in Complete("Generator") :
    /\ GeneratorOrder(g)
    /\ Spatial(Named(g, <<"deconv1">>)) = <<7, 7>>
    /\ Spatial(graph[Named(g, <<"deconv1">>)].in[3]) = <<7, 7>>
    /\ \A d \in {"deconv2", "output"} : Upsamples(Named(g, <<d>>))

C3_Witness == Complete("Generator") # {}

-----------------------------------------------------------------------------
(* C4 *)

DiscriminatorStages ==
  <<"Conv2D", "BiasAdd", "LeakyRelu", "Dropout",
    "Conv2D", "BiasAdd", "LeakyRelu", "Dropout",
    "Reshape", "MatMul", "BiasAdd">>

(* the object whose weights discriminator d reads *)
WeightsOf(d) == IF objs[d].cls = "SharedDiscriminator" THEN objs[d].disc ELSE d

Discriminators == Complete("Discriminator") \cup Complete("SharedDiscriminator")

(* C4: the nodes on the paths from a Discriminator's image input to its    *)
(* output are exactly Conv2D (stride 2, SAME) -> BiasAdd -> LeakyRelu ->   *)
(* Dropout, the same again with the second-layer weights, Reshape to       *)
(* [batch_size, s1], MatMul with fc1_weights and BiasAdd with fc1_biases;  *)
(* the output holds one logit per example.                                 *)
C4_DiscriminatorPath ==
  \A d \in Discriminators :
    LET w == WeightsOf(d)
        At(name) == graph[Named(d, name)]
    IN /\ Stages(Between(Index(graph, objs[d].args[1]), OutputOf(d)))
            = DiscriminatorStages
       /\ \A c \in {1, 2} :
            LET conv == At(<<IF c = 1 THEN "conv2d_1" ELSE "conv2d_2">>)
                bias == At(<<IF c = 1 THEN "relu_1" ELSE "relu_2", "bias_add">>)
            IN /\ conv.strides = <<1, 2, 2, 1>> /\ conv.padding = "SAME"
               /\ conv.in[2] = Named(w, <<IF c = 1 THEN "conv1_weights"
                                                   ELSE "conv2_weights">>)
               /\ bias.in[2] = Named(w, <<IF c = 1 THEN "conv1_biases"
                                                   ELSE "conv2_biases">>)
       /\ At(<<"reshape1">>).shape = <<batch_size, FlattenSize(IMAGE_SIZE)>>
       /\ At(<<"output", "matmul">>).in[2] = Named(w, <<"fc1_weights">>)
       /\ At(<<"output">>).in[2] = Named(w, <<"fc1_biases">>)
       /\ ShapeOf(graph, OutputOf(d)) = <<batch_size, 1>>

C4_Witness == Complete("Discriminator") # {}

-----------------------------------------------------------------------------
(* C5 *)

(* the parameter each moment accumulator accompanies *)
MomentParam ==
  [Generator |->
     ("w1_wm" :> "w1") @@ ("w1_wv" :> "w1")
     @@ ("filter_wm" :> "filter") @@ ("filter_wv" :> "filter")
     @@ ("filter2_wm" :> "filter2") @@ ("filter2_wv" :> "filter2")
     @@ ("filter3_wm" :> "filter3") @@ ("filter3_wv" :> "filter3"),
   Discriminator |->
     ("conv1_wm" :> "conv1_weights") @@ ("conv1_wv" :> "conv1_weights")
     @@ ("conv1_bm" :> "conv1_biases") @@ ("conv1_bv" :> "conv1_biases")
     @@ ("conv2_wm" :> "conv2_weights") @@ ("conv2_wv" :> "conv2_weights")
     @@ ("conv2_bm" :> "conv2_biases") @@ ("conv2_bv" :> "conv2_biases")
     @@ ("fc1_wm" :> "fc1_weights") @@ ("fc1_wv" :> "fc1_weights")
     @@ ("fc1_bm" :> "fc1_biases") @@ ("fc1_bv" :> "fc1_biases")]

(* the inputs of node j *)
Inputs(j) == {graph[j].in[k] : k \in 1..Len(graph[j].in)}

(* the nodes that take a node of V as an input *)
Readers(V) == {j \in 1..Len(graph) : Inputs(j) \cap V # {}}

(* C5: every moment accumulator of a Generator or Discriminator has the    *)
(* shape of its parameter; the only node that ever touches it is one       *)
(* Assign whose value is ZerosLike of that parameter, present once the     *)
(* constructor has returned; every other variable is a parameter.          *)
C5_MomentsZeroInitialisedOnly ==
  \A o \in AllObjects : \A c \in {"Generator", "Discriminator"} :
    objs[o].cls = c =>
      LET acc == MomentParam[c]
          params == {acc[X] : X \in DOMAIN acc}
          mine == NodesOf(o)
          var == [X \in DOMAIN acc \cup params |->
                    LET found == {i \in mine : graph[i].name = <<X>>}
                    IN IF found = {} THEN 0 ELSE CHOOSE i \in found : TRUE]
          touching == Readers({var[X] : X \in DOMAIN acc} \ {0})
      IN /\ \A i \in mine :
              graph[i].op = "Variable" =>
                /\ Len(graph[i].name) = 1
                /\ graph[i].name[1] \in DOMAIN acc \cup params
         /\ \A X \in DOMAIN acc :
              LET v == var[X]
                  P == var[acc[X]]
                  readers == {j \in touching : v \in Inputs(j)}
              IN /\ (o # active) => v # 0
                 /\ v # 0 =>
                      /\ graph[v].op = "Variable"
                      /\ P # 0 /\ graph[P].op = "Variable"
                      /\ graph[v].shape = graph[P].shape
                      /\ Cardinality(readers) <= 1
                      /\ (o # active) => Cardinality(readers) = 1
                      /\ \A a \in readers :
                           /\ graph[a].op = "Assign"
                           /\ graph[a].in[1] = v
                           /\ graph[graph[a].in[2]].op = "ZerosLike"
                           /\ graph[graph[a].in[2]].in = <<P>>

C5_Witness == Complete("Generator") # {} /\ Complete("Discriminator") # {}

-----------------------------------------------------------------------------
(* C6: SigmoidCrossEntropyWithLogits builds                                *)
(* Add(Sub(relu_logits, Multiply(logits, labels)),                         *)
(*     Log1p(Exp(neg_abs_logits)));                                        *)
(* evaluated on any logit x and label z, relu_logits is max(x, 0) and      *)
(* neg_abs_logits is -|x|, and x = 0 takes the x >= 0 branch.              *)
C6_LogisticLoss ==
  /\ \A l \in Complete("SigmoidCrossEntropyWithLogits") :
       LET labels == Index(graph, objs[l].args[1])
           logits == Index(graph, objs[l].args[2])
           out == graph[OutputOf(l)]
           sub == graph[out.in[1]]
           log1p == graph[out.in[2]]
           exp == graph[log1p.in[1]]
       IN /\ out.op = "Add" /\ sub.op = "Sub"
          /\ sub.in[1] = Named(l, <<"relu_logits">>)
          /\ graph[sub.in[2]].op = "Multiply"
          /\ graph[sub.in[2]].in = <<logits, labels>>
          /\ log1p.op = "Log1p" /\ exp.op = "Exp"
          /\ exp.in = <<Named(l, <<"neg_abs_logits">>)>>
          /\ graph[Named(l, <<"relu_logits">>)].op = "SelectV2"
          /\ graph[Named(l, <<"neg_abs_logits">>)].op = "SelectV2"
  /\ run # NoRun =>
       /\ run.relu_logits = Max(run.x, 0)
       /\ run.neg_abs_logits = -Abs(run.x)
       /\ run.sub = Max(run.x, 0) - run.x * run.z
       /\ run.cond = 1 <=> run.x >= 0

C6_Witness == run # NoRun /\ run.x < 0 /\ run.z = 1

-----------------------------------------------------------------------------
(* C7 *)

GlorotCalls == {i \in 1..Len(graph) : graph[i].by = "GlorotUniform"
                                        /\ graph[i].name[2] = "output"}

(* some uniform draws in [0, 1): the smallest, the middle, the largest *)
Draws == {0, ONE \div 2, ONE - 1}

(* C7: every GlorotUniform call passes a shape of rank 2 or 4; with fan_in *)
(* and fan_out as stated and scale = 1 / max(1, (fan_in + fan_out) / 2),   *)
(* the result is random_uniform * (2 * limit) + (-limit) where             *)
(* limit^2 = 3 * scale (to the model's resolution), so a draw in [0, 1)    *)
(* gives a result in [-limit, limit).                                      *)
C7_GlorotUniform ==
  \A i \in GlorotCalls :
    LET o == graph[i].obj
        p == graph[i].name[1]
        shape == graph[Named(o, <<p, "random_value", "shape">>)].val
        fan_in == IF Len(shape) = 2 THEN shape[1]
                                    ELSE shape[1] * shape[2] * shape[3]
        fan_out == IF Len(shape) = 2 THEN shape[2]
                                     ELSE shape[1] * shape[2] * shape[4]
        den == Max(2, fan_in + fan_out)     \* scale = 2 / den
        mul == graph[graph[i].in[1]]
        range == graph[mul.in[2]].val[1]
        minval == graph[graph[i].in[2]].val[1]
        limit == -minval
    IN /\ Len(shape) \in {2, 4}
       /\ graph[i].op = "Add" /\ mul.op = "Multiply"
       /\ mul.in[1] = Named(o, <<p, "random_value">>)
       /\ graph[mul.in[1]].op = "RandomUniform"
       /\ limit > 0
       /\ range = 2 * limit
       /\ limit * limit * den <= 3 * 2 * ONE * ONE
       /\ (limit + 1) * (limit + 1) * den > 3 * 2 * ONE * ONE
       /\ \A u \in Draws :
            LET result == (u * range) \div ONE + minval
            IN -limit <= result /\ result < limit

C7_Witness ==
  \E i \in GlorotCalls : \E j \in GlorotCalls :
    /\ Len(graph[graph[graph[i].in[1]].in[1]].shape) = 2
    /\ Len(graph[graph[graph[j].in[1]].in[1]].shape) = 4

-----------------------------------------------------------------------------
(* C8: construction is append-only: a step never removes or changes a node *)
(* already in the graph, and every input of every node is a node added     *)
(* before it, so every prefix of the construction is acyclic.              *)
InputsAreEarlier ==
  \A i \in 1..Len(graph) : \A k \in 1..Len(graph[i].in) :
    graph[i].in[k] \in 1..(i - 1)

AppendOnly ==
  /\ Len(graph') >= Len(graph)
  /\ SubSeq(graph', 1, Len(graph)) = graph

C8_AppendOnlyAcyclic == []InputsAreEarlier /\ [][AppendOnly]_vars

C8_Witness ==
  /\ Complete("Generator") # {}
  /\ Discriminators # {}
  /\ active # 0

-----------------------------------------------------------------------------
(* C9 *)

(* the nodes of object o from index lo on, in construction order *)
NodesFrom(o, lo) ==
  SelectSeq([i \in 1..Len(graph) |-> i], LAMBDA i : graph[i].obj = o /\ i >= lo)

WeightMembers ==
  {"conv1_weights", "conv1_biases", "conv2_weights", "conv2_biases",
   "fc1_weights", "fc1_biases"}

(* node i without its place in the graph *)
Attributes(i) == [graph[i] EXCEPT !.obj = 0, !.in = <<>>]

(* C9: a shared-weights Discriminator is node for node the forward part of *)
(* the primary constructor (same ops, strides, padding, alpha, dropout     *)
(* constants and flatten size, wired the same way), reads exactly the six  *)
(* weight members of disc, and adds no Variable and no Assign node.        *)
C9_SharedDiscriminatorSameForward ==
  \A s \in AllObjects :
    objs[s].cls = "SharedDiscriminator" =>
      LET d == objs[s].disc
          mine == NodesFrom(s, 1)
          \* the forward part of the primary constructor: from conv2d_1 on
          theirs == NodesFrom(d, Named(d, <<"conv2d_1">>))
          \* the node of s that stands for node j of d
          Same(j) == IF graph[j].obj = d /\ j >= theirs[1]
                       THEN mine[j - theirs[1] + 1]
                       ELSE IF j = Index(graph, objs[d].args[1])
                              THEN Index(graph, objs[s].args[1])
                              ELSE j
      IN /\ \A i \in NodesOf(s) : graph[i].op \notin {"Variable", "Assign"}
         /\ Len(mine) <= Len(theirs)
         /\ (s # active) => Len(mine) = Len(theirs)
         /\ \A k \in 1..Len(mine) :
              /\ Attributes(mine[k]) = Attributes(theirs[k])
              /\ graph[mine[k]].in
                   = [m \in 1..Len(graph[theirs[k]].in) |->
                        Same(graph[theirs[k]].in[m])]
         /\ (s # active) =>
              {graph[j].name : j \in {j \in UNION {Inputs(i) : i \in NodesOf(s)} :
                                        graph[j].obj = d}}
                = {<<w>> : w \in WeightMembers}

C9_Witness ==
  \E s \in Complete("SharedDiscriminator") : \E t \in Complete("SharedDiscriminator") :
    s # t

-----------------------------------------------------------------------------
(* C10: along the Generator's transposed convolutions, for each stage with *)
(* filter [5, 5, c_out, c_in] and input_sizes [batch_size, h_out, w_out,   *)
(* c_out]: c_in is the channel count of the tensor fed in (256, 128, 64),  *)
(* h_out and w_out are the fed height and width times the stride           *)
(* (7 -> 7 -> 14 -> 28), the FusedBatchNorm that follows has scale and     *)
(* offset of length c_out (128, 64), and the output is                     *)
(* [batch_size, 28, 28, NUM_CHANNELS].                                     *)
C10_GeneratorShapes ==
  \A g \in Complete("Generator") :
    LET Stage(name, c_in, h_in, h_out) ==
          LET d == graph[Named(g, <<name>>)]
              sizes == graph[d.in[1]].val
              filter == ShapeOf(graph, d.in[2])
              fed == ShapeOf(graph, d.in[3])
          IN /\ d.padding = "SAME"
             /\ filter = <<5, 5, sizes[4], c_in>>
             /\ fed = <<batch_size, h_in, h_in, c_in>>
             /\ sizes = <<batch_size, fed[2] * d.strides[2],
                          fed[3] * d.strides[3], sizes[4]>>
             /\ sizes[2] = h_out /\ sizes[3] = h_out
        Norm(name, deconv, c_out) ==
          LET n == graph[Named(g, <<name>>)]
          IN /\ n.in[1] = Named(g, <<deconv>>)
             /\ ShapeOf(graph, n.in[1])[4] = c_out
             /\ ShapeOf(graph, n.in[2]) = <<c_out>>
             /\ ShapeOf(graph, n.in[3]) = <<c_out>>
    IN /\ Stage("deconv1", 256, 7, 7)
       /\ Stage("deconv2", 128, 7, 14)
       /\ Stage("output", 64, 14, 28)
       /\ Norm("batchnorm1", "deconv1", 128)
       /\ Norm("batchnorm2", "deconv2", 64)
       /\ ShapeOf(graph, OutputOf(g)) = <<batch_size, 28, 28, NUM_CHANNELS>>

C10_Witness == Complete("Generator") # {} /\ batch_size > 1

-----------------------------------------------------------------------------
(* C11 *)

(* what the second convolution stage of discriminator d hands to Reshape:  *)
(* [batch_size, h2, h2, 128] with h1 = ceil(IMAGE_SIZE / 2) and            *)
(* h2 = ceil(h1 / 2); s1 is the flatten size the constructor computed,     *)
(* (IMAGE_SIZE / 4)^2 * 128, and the first dimension of fc1_weights        *)
FlattenInput(d) ==
  LET reshape == graph[Named(d, <<"reshape1">>)]
      fed == ShapeOf(graph, reshape.in[1])
      h1 == (image_size + 1) \div 2
      h2 == (h1 + 1) \div 2
      s1 == reshape.shape[2]
  IN /\ reshape.in[1] = Named(d, <<"dropout_2", "output">>)
     /\ fed = <<batch_size, h2, h2, 128>>
     /\ reshape.shape[1] = batch_size
     /\ s1 = (image_size \div 4) * (image_size \div 4) * 128
     /\ ShapeOf(graph, Named(WeightsOf(d), <<"fc1_weights">>)) = <<s1, 1>>

(* the elements per example of what Reshape is fed *)
FlattenedLength(d) ==
  LET fed == ShapeOf(graph, graph[Named(d, <<"reshape1">>)].in[1])
  IN fed[2] * fed[3] * fed[4]

(* C11 as claimed: in both Discriminator constructors, for every           *)
(* IMAGE_SIZE >= 1 and batch_size >= 1, s1 equals the number of elements   *)
(* per example of the second convolution stage's output, so Reshape keeps  *)
(* the element count and fc1_weights matches the flattened length.         *)
C11_FlattenSizeMatches ==
  \A d \in Discriminators :
    /\ FlattenInput(d)
    /\ graph[Named(d, <<"reshape1">>)].shape[2] = FlattenedLength(d)

(* C11, amended: the same for every IMAGE_SIZE that is a multiple of 4;    *)
(* for any other IMAGE_SIZE s1 is smaller than the flattened length.       *)
C11_FlattenSizeMatchesMultiplesOf4 ==
  \A d \in Discriminators :
    LET s1 == graph[Named(d, <<"reshape1">>)].shape[2] IN
    /\ FlattenInput(d)
    /\ (image_size % 4 = 0) => s1 = FlattenedLength(d)
    /\ (image_size % 4 # 0) => s1 < FlattenedLength(d)

C11_Witness ==
  /\ image_size % 4 = 0
  /\ image_size # IMAGE_SIZE
  /\ Complete("SharedDiscriminator") # {}

=============================================================================
